---- MODULE Spec2Model ----
(***************************************************************************)
(* Chess game server: the move-legality rules (ChessRules) and the game    *)
(* session handlers (createGame, handleJoin, handleMove,                   *)
(* handleGetValidMoves, handlePromotion, updateGameStatus).                *)
(*                                                                         *)
(* Rows and columns are those of the source: row 0 is black's back rank,   *)
(* row 7 is white's, column 0 is the a-file.  A piece is the record        *)
(* {type, color, id, hasMoved}; its row/col fields are omitted because the *)
(* rules never read them (every use takes the coordinates as arguments).   *)
(***************************************************************************)
EXTENDS Integers, Sequences, FiniteSets, TLC

VARIABLES
  game,      \* the GameState of the one session: board, currentTurn, status, winner,
             \* castlingRights, halfMoveClock, fullMoveNumber, lastMove, players (their number)
  outcome,   \* how the last handler call ended and what it sent back
  budget,    \* handler calls that may still change the game (bounds the exploration)
  over,      \* a 'move' broadcast has announced checkmate, stalemate or a draw
  line,      \* the moves the two players have agreed to open with, not yet played
  client,    \* the GameService of the white player and the messages between it and the server
  socket     \* a WebSocketService: the sockets it has created, isConnected, reconnect timers

vars == <<game, outcome, budget, over, line, client, socket>>

----
(* Data *)

Rows == 0..7
Cols == 0..7
Squares == Rows \X Cols
Colors == {"white", "black"}
Kinds == {"pawn", "rook", "knight", "bishop", "queen", "king"}

\* null in a board cell
NoPiece == [type |-> "none", color |-> "none", id |-> <<>>, hasMoved |-> FALSE]

Piece(t, c, n, m) == [type |-> t, color |-> c, id |-> <<c, t, n>>, hasMoved |-> m]

Abs(x) == IF x < 0 THEN -x ELSE x
Min2(a, b) == IF a < b THEN a ELSE b
Max2(a, b) == IF a < b THEN b ELSE a
Opponent(c) == IF c = "white" THEN "black" ELSE "white"
\* ids of promoted pieces are <<color, type, PromotedBase + time>>
PromotedBase == 100
OnBoard(r, c) == r >= 0 /\ r < 8 /\ c >= 0 /\ c < 8

pieceOrder == <<"rook", "knight", "bishop", "queen", "king", "bishop", "knight", "rook">>

createInitialBoard ==
  [r \in Rows |-> [c \in Cols |->
     CASE r = 0 -> Piece(pieceOrder[c + 1], "black", c, FALSE)
       [] r = 1 -> Piece("pawn", "black", c, FALSE)
       [] r = 6 -> Piece("pawn", "white", c, FALSE)
       [] r = 7 -> Piece(pieceOrder[c + 1], "white", c, FALSE)
       [] OTHER -> NoPiece]]

----
(* ChessRules *)

\* newBoard[to] = {...piece}; newBoard[from] = null, on a copy
simulateMove(b, fromRow, fromCol, toRow, toCol, piece) ==
  [b EXCEPT ![toRow][toCol] = piece, ![fromRow][fromCol] = NoPiece]

Sign(x) == IF x > 0 THEN 1 ELSE IF x < 0 THEN -1 ELSE 0

\* every square strictly between from and to is empty (callers pass aligned squares)
isPathClear(b, fromRow, fromCol, toRow, toCol) ==
  LET rowStep == Sign(toRow - fromRow)
      colStep == Sign(toCol - fromCol)
      n == Max2(Abs(toRow - fromRow), Abs(toCol - fromCol))
  IN \A i \in 1..(n - 1) : b[fromRow + i * rowStep][fromCol + i * colStep] = NoPiece

canPawnAttackSquare(piece, fromRow, fromCol, toRow, toCol) ==
  LET direction == IF piece.color = "white" THEN -1 ELSE 1
  IN Abs(toCol - fromCol) = 1 /\ toRow = fromRow + direction

canRookAttackSquare(b, fromRow, fromCol, toRow, toCol) ==
  IF fromRow # toRow /\ fromCol # toCol THEN FALSE
  ELSE isPathClear(b, fromRow, fromCol, toRow, toCol)

canKnightAttackSquare(fromRow, fromCol, toRow, toCol) ==
  LET rowDiff == Abs(toRow - fromRow)
      colDiff == Abs(toCol - fromCol)
  IN (rowDiff = 2 /\ colDiff = 1) \/ (rowDiff = 1 /\ colDiff = 2)

canBishopAttackSquare(b, fromRow, fromCol, toRow, toCol) ==
  IF Abs(toRow - fromRow) # Abs(toCol - fromCol) THEN FALSE
  ELSE isPathClear(b, fromRow, fromCol, toRow, toCol)

canQueenAttackSquare(b, fromRow, fromCol, toRow, toCol) ==
  LET isRookMove == fromRow = toRow \/ fromCol = toCol
      isBishopMove == Abs(toRow - fromRow) = Abs(toCol - fromCol)
  IN IF ~isRookMove /\ ~isBishopMove THEN FALSE
     ELSE isPathClear(b, fromRow, fromCol, toRow, toCol)

canKingAttackSquare(fromRow, fromCol, toRow, toCol) ==
  Abs(toRow - fromRow) <= 1 /\ Abs(toCol - fromCol) <= 1

canPieceAttackSquare(b, piece, fromRow, fromCol, toRow, toCol) ==
  IF fromRow = toRow /\ fromCol = toCol THEN FALSE
  ELSE CASE piece.type = "pawn" -> canPawnAttackSquare(piece, fromRow, fromCol, toRow, toCol)
         [] piece.type = "rook" -> canRookAttackSquare(b, fromRow, fromCol, toRow, toCol)
         [] piece.type = "knight" -> canKnightAttackSquare(fromRow, fromCol, toRow, toCol)
         [] piece.type = "bishop" -> canBishopAttackSquare(b, fromRow, fromCol, toRow, toCol)
         [] piece.type = "queen" -> canQueenAttackSquare(b, fromRow, fromCol, toRow, toCol)
         [] piece.type = "king" -> canKingAttackSquare(fromRow, fromCol, toRow, toCol)
         [] OTHER -> FALSE

\* the squares holding a king of kingColor
KingSquares(b, kingColor) ==
  {s \in Squares : b[s[1]][s[2]].type = "king" /\ b[s[1]][s[2]].color = kingColor}

\* the first of them in the scan order of the source (rows, then columns)
FirstKing(b, kingColor) ==
  CHOOSE s \in KingSquares(b, kingColor) :
    \A t \in KingSquares(b, kingColor) : s[1] * 8 + s[2] <= t[1] * 8 + t[2]

isKingInCheck(b, kingColor) ==
  IF KingSquares(b, kingColor) = {} THEN FALSE   \* king not found
  ELSE LET k == FirstKing(b, kingColor)
       IN \E s \in Squares :
            /\ b[s[1]][s[2]].color = Opponent(kingColor)
            /\ canPieceAttackSquare(b, b[s[1]][s[2]], s[1], s[2], k[1], k[2])

\* markPawnAttacks marking the squares behind the pawn
markPawnAttacks_Backwards(piece, fromRow, fromCol) ==
  LET direction == IF piece.color = "white" THEN 1 ELSE -1
  IN (IF fromCol > 0 /\ OnBoard(fromRow + direction, fromCol - 1)
        THEN {<<fromRow + direction, fromCol - 1>>} ELSE {})
     \cup
     (IF fromCol < 7 /\ OnBoard(fromRow + direction, fromCol + 1)
        THEN {<<fromRow + direction, fromCol + 1>>} ELSE {})

markPawnAttacks(piece, fromRow, fromCol) ==
  LET direction == IF piece.color = "white" THEN -1 ELSE 1
  IN (IF fromCol > 0 /\ OnBoard(fromRow + direction, fromCol - 1)
        THEN {<<fromRow + direction, fromCol - 1>>} ELSE {})
     \cup
     (IF fromCol < 7 /\ OnBoard(fromRow + direction, fromCol + 1)
        THEN {<<fromRow + direction, fromCol + 1>>} ELSE {})

\* one ray of a sliding piece: mark each square, stop after the first occupied one
RECURSIVE Ray(_, _, _, _, _)
Ray(b, r, c, dr, dc) ==
  IF ~OnBoard(r, c) THEN {}
  ELSE {<<r, c>>} \cup (IF b[r][c] # NoPiece THEN {} ELSE Ray(b, r + dr, c + dc, dr, dc))

markRookAttacks(b, fromRow, fromCol) ==
  Ray(b, fromRow - 1, fromCol, -1, 0) \cup Ray(b, fromRow + 1, fromCol, 1, 0)
    \cup Ray(b, fromRow, fromCol - 1, 0, -1) \cup Ray(b, fromRow, fromCol + 1, 0, 1)

markBishopAttacks(b, fromRow, fromCol) ==
  Ray(b, fromRow - 1, fromCol - 1, -1, -1) \cup Ray(b, fromRow - 1, fromCol + 1, -1, 1)
    \cup Ray(b, fromRow + 1, fromCol - 1, 1, -1) \cup Ray(b, fromRow + 1, fromCol + 1, 1, 1)

markQueenAttacks(b, fromRow, fromCol) ==
  markRookAttacks(b, fromRow, fromCol) \cup markBishopAttacks(b, fromRow, fromCol)

knightMoves == {<<-2, -1>>, <<-2, 1>>, <<-1, -2>>, <<-1, 2>>,
                <<1, -2>>, <<1, 2>>, <<2, -1>>, <<2, 1>>}

markKnightAttacks(fromRow, fromCol) ==
  {<<fromRow + d[1], fromCol + d[2]>> : d \in knightMoves} \cap Squares

kingSteps == {d \in (-1..1) \X (-1..1) : d # <<0, 0>>}

markKingAttacks(fromRow, fromCol) ==
  {<<fromRow + d[1], fromCol + d[2]>> : d \in kingSteps} \cap Squares

markAttackedSquares(b, piece, fromRow, fromCol) ==
  CASE piece.type = "pawn" -> markPawnAttacks(piece, fromRow, fromCol)
    [] piece.type = "rook" -> markRookAttacks(b, fromRow, fromCol)
    [] piece.type = "knight" -> markKnightAttacks(fromRow, fromCol)
    [] piece.type = "bishop" -> markBishopAttacks(b, fromRow, fromCol)
    [] piece.type = "queen" -> markQueenAttacks(b, fromRow, fromCol)
    [] piece.type = "king" -> markKingAttacks(fromRow, fromCol)
    [] OTHER -> {}

\* the squares marked true in the grid built for `color` (those its opponent attacks)
getAttackedSquares(b, color) ==
  UNION {markAttackedSquares(b, b[s[1]][s[2]], s[1], s[2]) :
           s \in {q \in Squares : b[q[1]][q[2]].color = Opponent(color)}}

\* isValidPawnMove without the double step from the starting row
isValidPawnMove_SingleStepOnly(b, piece, fromRow, fromCol, toRow, toCol) ==
  LET direction == IF piece.color = "white" THEN -1 ELSE 1
  IN \/ /\ toCol = fromCol
        /\ toRow = fromRow + direction
        /\ b[toRow][toCol] = NoPiece
     \/ /\ Abs(toCol - fromCol) = 1
        /\ toRow = fromRow + direction
        /\ b[toRow][toCol] # NoPiece
        /\ b[toRow][toCol].color # piece.color

isValidPawnMove(b, piece, fromRow, fromCol, toRow, toCol) ==
  LET direction == IF piece.color = "white" THEN -1 ELSE 1
      startRow == IF piece.color = "white" THEN 6 ELSE 1
  IN \/ /\ toCol = fromCol
        /\ \/ toRow = fromRow + direction /\ b[toRow][toCol] = NoPiece
           \/ /\ fromRow = startRow
              /\ toRow = fromRow + 2 * direction
              /\ b[fromRow + direction][fromCol] = NoPiece
              /\ b[toRow][toCol] = NoPiece
     \/ /\ Abs(toCol - fromCol) = 1
        /\ toRow = fromRow + direction
        /\ b[toRow][toCol] # NoPiece
        /\ b[toRow][toCol].color # piece.color

isValidRookMove(b, fromRow, fromCol, toRow, toCol) ==
  IF fromRow # toRow /\ fromCol # toCol THEN FALSE
  ELSE isPathClear(b, fromRow, fromCol, toRow, toCol)

isValidKnightMove(fromRow, fromCol, toRow, toCol) ==
  LET rowDiff == Abs(toRow - fromRow)
      colDiff == Abs(toCol - fromCol)
  IN (rowDiff = 2 /\ colDiff = 1) \/ (rowDiff = 1 /\ colDiff = 2)

isValidBishopMove(b, fromRow, fromCol, toRow, toCol) ==
  IF Abs(toRow - fromRow) # Abs(toCol - fromCol) THEN FALSE
  ELSE isPathClear(b, fromRow, fromCol, toRow, toCol)

isValidQueenMove(b, fromRow, fromCol, toRow, toCol) ==
  LET isRookMove == fromRow = toRow \/ fromCol = toCol
      isBishopMove == Abs(toRow - fromRow) = Abs(toCol - fromCol)
  IN IF ~isRookMove /\ ~isBishopMove THEN FALSE
     ELSE isPathClear(b, fromRow, fromCol, toRow, toCol)

\* isValidCastling without the test of the squares the king passes over
isValidCastling_IgnoresTransit(b, king, fromRow, fromCol, toCol) ==
  IF isKingInCheck(b, king.color) THEN FALSE
  ELSE
    LET isKingside == toCol > fromCol
        rookCol == IF isKingside THEN 7 ELSE 0
        rook == b[fromRow][rookCol]
        startCol == Min2(fromCol, rookCol) + 1
        endCol == Max2(fromCol, rookCol) - 1
        attackedSquares == getAttackedSquares(b, king.color)
    IN /\ rook # NoPiece
       /\ rook.type = "rook"
       /\ rook.color = king.color
       /\ ~rook.hasMoved
       /\ \A col \in startCol..endCol : b[fromRow][col] = NoPiece
       /\ <<fromRow, toCol>> \notin attackedSquares

\* toCol may lie off the board when the caller is getKingValidMoves
isValidCastling(b, king, fromRow, fromCol, toCol) ==
  IF isKingInCheck(b, king.color) THEN FALSE
  ELSE
    LET isKingside == toCol > fromCol
        rookCol == IF isKingside THEN 7 ELSE 0
        rook == b[fromRow][rookCol]
        startCol == Min2(fromCol, rookCol) + 1
        endCol == Max2(fromCol, rookCol) - 1
        attackedSquares == getAttackedSquares(b, king.color)
        passed == IF isKingside THEN fromCol..(toCol - 1) ELSE (toCol + 1)..fromCol
    IN /\ rook # NoPiece
       /\ rook.type = "rook"
       /\ rook.color = king.color
       /\ ~rook.hasMoved
       /\ \A col \in startCol..endCol : b[fromRow][col] = NoPiece
       /\ \A col \in passed : <<fromRow, col>> \notin attackedSquares
       /\ <<fromRow, toCol>> \notin attackedSquares

isValidKingMove(b, piece, fromRow, fromCol, toRow, toCol) ==
  LET rowDiff == Abs(toRow - fromRow)
      colDiff == Abs(toCol - fromCol)
  IN IF rowDiff <= 1 /\ colDiff <= 1
       THEN /\ ~(b[toRow][toCol] # NoPiece /\ b[toRow][toCol].color = piece.color)
            /\ <<toRow, toCol>> \notin getAttackedSquares(b, piece.color)
            /\ ~isKingInCheck(simulateMove(b, fromRow, fromCol, toRow, toCol, piece), piece.color)
       ELSE IF rowDiff = 0 /\ colDiff = 2 /\ ~piece.hasMoved
              THEN isValidCastling(b, piece, fromRow, fromCol, toCol)
              ELSE FALSE

\* the shape rule of the piece's kind (the switch of isValidMove)
pieceMoveValid(b, piece, fromRow, fromCol, toRow, toCol) ==
  CASE piece.type = "pawn" -> isValidPawnMove(b, piece, fromRow, fromCol, toRow, toCol)
    [] piece.type = "rook" -> isValidRookMove(b, fromRow, fromCol, toRow, toCol)
    [] piece.type = "knight" -> isValidKnightMove(fromRow, fromCol, toRow, toCol)
    [] piece.type = "bishop" -> isValidBishopMove(b, fromRow, fromCol, toRow, toCol)
    [] piece.type = "queen" -> isValidQueenMove(b, fromRow, fromCol, toRow, toCol)
    [] piece.type = "king" -> isValidKingMove(b, piece, fromRow, fromCol, toRow, toCol)
    [] OTHER -> FALSE

isValidMove(b, piece, fromRow, fromCol, toRow, toCol) ==
  IF fromRow = toRow /\ fromCol = toCol THEN FALSE
  ELSE IF toRow < 0 \/ toRow > 7 \/ toCol < 0 \/ toCol > 7 THEN FALSE
  ELSE IF b[toRow][toCol] # NoPiece /\ b[toRow][toCol].color = piece.color THEN FALSE
  ELSE IF ~pieceMoveValid(b, piece, fromRow, fromCol, toRow, toCol) THEN FALSE
  ELSE ~isKingInCheck(simulateMove(b, fromRow, fromCol, toRow, toCol, piece), piece.color)

getKingValidMoves(b, king, row, col) ==
  LET attackedSquares == getAttackedSquares(b, king.color)
      adjacent ==
        {t \in {<<row + d[1], col + d[2]>> : d \in kingSteps} :
           /\ OnBoard(t[1], t[2])
           /\ ~(b[t[1]][t[2]] # NoPiece /\ b[t[1]][t[2]].color = king.color)
           /\ t \notin attackedSquares
           /\ ~isKingInCheck(simulateMove(b, row, col, t[1], t[2], king), king.color)}
      castling ==
        IF ~king.hasMoved /\ ~isKingInCheck(b, king.color)
          THEN (IF isValidCastling(b, king, row, col, col + 2) THEN {<<row, col + 2>>} ELSE {})
               \cup
               (IF isValidCastling(b, king, row, col, col - 2) THEN {<<row, col - 2>>} ELSE {})
          ELSE {}
  IN adjacent \cup castling

\* the list of destinations, as a set
getValidMoves(b, piece, row, col) ==
  IF piece.type = "king" THEN getKingValidMoves(b, piece, row, col)
  ELSE {t \in Squares : isValidMove(b, piece, row, col, t[1], t[2])}

\* some piece of `color` has a valid move
HasValidMove(b, color) ==
  \E s \in Squares :
    /\ b[s[1]][s[2]].color = color
    /\ getValidMoves(b, b[s[1]][s[2]], s[1], s[2]) # {}

isCheckmate(b, color) ==
  IF ~isKingInCheck(b, color) THEN FALSE ELSE ~HasValidMove(b, color)

\* isStalemate with the test of the king inverted
isStalemate_WhenInCheck(b, color) ==
  IF ~isKingInCheck(b, color) THEN FALSE ELSE ~HasValidMove(b, color)

isStalemate(b, color) ==
  IF isKingInCheck(b, color) THEN FALSE ELSE ~HasValidMove(b, color)

\* canPromotePawn with the last rows of the two sides exchanged
canPromotePawn_RowsSwapped(piece, toRow) ==
  IF piece.type # "pawn" THEN FALSE
  ELSE (piece.color = "white" /\ toRow = 7) \/ (piece.color = "black" /\ toRow = 0)

canPromotePawn(piece, toRow) ==
  IF piece.type # "pawn" THEN FALSE
  ELSE (piece.color = "white" /\ toRow = 0) \/ (piece.color = "black" /\ toRow = 7)

----
(* Game session *)

\* no lastMove yet; in a lastMove an absent promotion is "none", an absent flag FALSE
NoMove ==
  [from |-> <<-1, -1>>, to |-> <<-1, -1>>, piece |-> NoPiece, promotion |-> "none",
   isCastle |-> FALSE, isEnPassant |-> FALSE]

\* createGame starting the full-move number at 0
createGame_CountsFromZero ==
  [board |-> createInitialBoard,
   currentTurn |-> "white",
   status |-> "waiting",
   winner |-> "none",
   castlingRights |-> [white |-> [kingside |-> TRUE, queenside |-> TRUE],
                       black |-> [kingside |-> TRUE, queenside |-> TRUE]],
   halfMoveClock |-> 0,
   fullMoveNumber |-> 0,
   lastMove |-> NoMove,
   players |-> 0]

createGame ==
  [board |-> createInitialBoard,
   currentTurn |-> "white",
   status |-> "waiting",
   winner |-> "none",
   castlingRights |-> [white |-> [kingside |-> TRUE, queenside |-> TRUE],
                       black |-> [kingside |-> TRUE, queenside |-> TRUE]],
   halfMoveClock |-> 0,
   fullMoveNumber |-> 1,
   lastMove |-> NoMove,
   players |-> 0]

\* updateGameStatus naming the mated side as the winner
updateGameStatus_WinnerIsMated(g) ==
  LET whiteInCheck == isKingInCheck(g.board, "white")
      blackInCheck == isKingInCheck(g.board, "black")
      whiteCheckmate == isCheckmate(g.board, "white")
      blackCheckmate == isCheckmate(g.board, "black")
      whiteStalemate == isStalemate(g.board, "white")
      blackStalemate == isStalemate(g.board, "black")
      g1 == IF whiteCheckmate THEN [g EXCEPT !.status = "checkmate", !.winner = "white"]
            ELSE IF blackCheckmate THEN [g EXCEPT !.status = "checkmate", !.winner = "black"]
            ELSE IF whiteStalemate \/ blackStalemate
                   THEN [g EXCEPT !.status = "stalemate", !.winner = "none"]
            ELSE IF whiteInCheck /\ g.currentTurn = "white" THEN [g EXCEPT !.status = "check"]
            ELSE IF blackInCheck /\ g.currentTurn = "black" THEN [g EXCEPT !.status = "check"]
            ELSE [g EXCEPT !.status = "playing", !.winner = "none"]
  IN IF g1.halfMoveClock >= 100 THEN [g1 EXCEPT !.status = "draw"] ELSE g1

updateGameStatus(g) ==
  LET whiteInCheck == isKingInCheck(g.board, "white")
      blackInCheck == isKingInCheck(g.board, "black")
      whiteCheckmate == isCheckmate(g.board, "white")
      blackCheckmate == isCheckmate(g.board, "black")
      whiteStalemate == isStalemate(g.board, "white")
      blackStalemate == isStalemate(g.board, "black")
      g1 == IF whiteCheckmate THEN [g EXCEPT !.status = "checkmate", !.winner = "black"]
            ELSE IF blackCheckmate THEN [g EXCEPT !.status = "checkmate", !.winner = "white"]
            ELSE IF whiteStalemate \/ blackStalemate
                   THEN [g EXCEPT !.status = "stalemate", !.winner = "none"]
            ELSE IF whiteInCheck /\ g.currentTurn = "white" THEN [g EXCEPT !.status = "check"]
            ELSE IF blackInCheck /\ g.currentTurn = "black" THEN [g EXCEPT !.status = "check"]
            ELSE [g EXCEPT !.status = "playing", !.winner = "none"]
  IN IF g1.halfMoveClock >= 100 THEN [g1 EXCEPT !.status = "draw"] ELSE g1

\* handleCastling putting the rook beside the king without taking it from its corner
handleCastling_LeavesCorner(b, from, to) ==
  LET isKingside == to[2] > from[2]
      rookFromCol == IF isKingside THEN 7 ELSE 0
      rookToCol == IF isKingside THEN to[2] - 1 ELSE to[2] + 1
      rook == b[from[1]][rookFromCol]
  IN IF rook # NoPiece /\ rook.type = "rook"
       THEN [b EXCEPT ![from[1]][rookToCol] = [rook EXCEPT !.hasMoved = TRUE]]
       ELSE b

\* the board after handleCastling: the rook of the wing, if there, goes beside the king
handleCastling(b, from, to) ==
  LET isKingside == to[2] > from[2]
      rookFromCol == IF isKingside THEN 7 ELSE 0
      rookToCol == IF isKingside THEN to[2] - 1 ELSE to[2] + 1
      rook == b[from[1]][rookFromCol]
  IN IF rook # NoPiece /\ rook.type = "rook"
       THEN [b EXCEPT ![from[1]][rookToCol] = [rook EXCEPT !.hasMoved = TRUE],
                      ![from[1]][rookFromCol] = NoPiece]
       ELSE b

\* updateCastlingRights clearing only the kingside right on a move of the king
updateCastlingRights_KingKeepsQueenside(rights, piece, from) ==
  IF piece.type = "king"
    THEN [rights EXCEPT ![piece.color] = [kingside |-> FALSE, queenside |-> @.queenside]]
  ELSE IF piece.type = "rook"
    THEN [rights EXCEPT ![piece.color] =
            [kingside |-> IF from[2] = 7 THEN FALSE ELSE @.kingside,
             queenside |-> IF from[2] = 0 THEN FALSE ELSE @.queenside]]
  ELSE rights

\* updateCastlingRights giving a side its rights back when one of its pawns moves
updateCastlingRights_PawnRestores(rights, piece, from) ==
  IF piece.type = "king"
    THEN [rights EXCEPT ![piece.color] = [kingside |-> FALSE, queenside |-> FALSE]]
  ELSE IF piece.type = "rook"
    THEN [rights EXCEPT ![piece.color] =
            [kingside |-> IF from[2] = 7 THEN FALSE ELSE @.kingside,
             queenside |-> IF from[2] = 0 THEN FALSE ELSE @.queenside]]
  ELSE IF piece.type = "pawn"
    THEN [rights EXCEPT ![piece.color] = [kingside |-> TRUE, queenside |-> TRUE]]
  ELSE rights

updateCastlingRights(rights, piece, from) ==
  IF piece.type = "king"
    THEN [rights EXCEPT ![piece.color] = [kingside |-> FALSE, queenside |-> FALSE]]
  ELSE IF piece.type = "rook"
    THEN [rights EXCEPT ![piece.color] =
            [kingside |-> IF from[2] = 7 THEN FALSE ELSE @.kingside,
             queenside |-> IF from[2] = 0 THEN FALSE ELSE @.queenside]]
  ELSE rights

\* `${color}_${type}_promoted_${Date.now()}`
PromotedId(color, type, stamp) == <<color, type, PromotedBase + stamp>>

Result(g, kind, reply) == [game |-> g, outcome |-> kind, reply |-> reply]

\* applyMove counting the moves of white in the full-move number
applyMove_CountsWhite(g, req) ==
  LET from == req.from
      to == req.to
      p0 == req.piece
      isCastle == p0.type = "king" /\ Abs(to[2] - from[2]) = 2
      isEnPassant == ~isCastle /\ p0.type = "pawn" /\ from[2] # to[2]
                       /\ g.board[to[1]][to[2]] = NoPiece
      isPromotion == ~isCastle /\ ~isEnPassant /\ p0.type = "pawn"
                       /\ canPromotePawn(p0, to[1])
      promotionType == IF req.promotion = "none" THEN "queen" ELSE req.promotion
      b1 == IF isCastle THEN handleCastling(g.board, from, to)
            ELSE IF isEnPassant
              THEN LET capturedPawnRow == IF p0.color = "white" THEN to[1] + 1 ELSE to[1] - 1
                   IN [g.board EXCEPT ![capturedPawnRow][to[2]] = NoPiece]
            ELSE g.board
      p1 == IF isPromotion
              THEN [p0 EXCEPT !.type = promotionType,
                              !.id = PromotedId(p0.color, promotionType, req.stamp)]
              ELSE p0
      piece == [p1 EXCEPT !.hasMoved = TRUE]
      \* handleCastling and the promotion branch write into the lastMove they find,
      \* the record of the move before this one
      rook == g.board[from[1]][IF to[2] > from[2] THEN 7 ELSE 0]
      marked == IF g.lastMove = NoMove THEN NoMove
                ELSE [g.lastMove EXCEPT
                        !.isCastle = @ \/ (isCastle /\ rook # NoPiece /\ rook.type = "rook"),
                        !.promotion = IF isPromotion THEN promotionType ELSE @]
      b2 == [b1 EXCEPT ![to[1]][to[2]] = piece, ![from[1]][from[2]] = NoPiece]
      g2 == [g EXCEPT
               !.board = b2,
               !.lastMove = marked,
               !.castlingRights = updateCastlingRights(g.castlingRights, piece, from),
               !.halfMoveClock = IF piece.type = "pawn" \/ b2[to[1]][to[2]] # NoPiece
                                   THEN 0 ELSE g.halfMoveClock + 1,
               !.fullMoveNumber = IF g.currentTurn = "white" THEN @ + 1 ELSE @,
               !.currentTurn = Opponent(g.currentTurn)]
  IN [updateGameStatus(g2) EXCEPT
        !.lastMove = [from |-> from, to |-> to, piece |-> piece, promotion |-> req.promotion,
                      isCastle |-> FALSE, isEnPassant |-> FALSE]]

\* the accepted part of handleMove: special moves, the move itself, counters, turn, status
applyMove(g, req) ==
  LET from == req.from
      to == req.to
      p0 == req.piece
      isCastle == p0.type = "king" /\ Abs(to[2] - from[2]) = 2
      isEnPassant == ~isCastle /\ p0.type = "pawn" /\ from[2] # to[2]
                       /\ g.board[to[1]][to[2]] = NoPiece
      isPromotion == ~isCastle /\ ~isEnPassant /\ p0.type = "pawn"
                       /\ canPromotePawn(p0, to[1])
      promotionType == IF req.promotion = "none" THEN "queen" ELSE req.promotion
      b1 == IF isCastle THEN handleCastling(g.board, from, to)
            ELSE IF isEnPassant
              THEN LET capturedPawnRow == IF p0.color = "white" THEN to[1] + 1 ELSE to[1] - 1
                   IN [g.board EXCEPT ![capturedPawnRow][to[2]] = NoPiece]
            ELSE g.board
      p1 == IF isPromotion
              THEN [p0 EXCEPT !.type = promotionType,
                              !.id = PromotedId(p0.color, promotionType, req.stamp)]
              ELSE p0
      piece == [p1 EXCEPT !.hasMoved = TRUE]
      \* handleCastling and the promotion branch write into the lastMove they find,
      \* the record of the move before this one
      rook == g.board[from[1]][IF to[2] > from[2] THEN 7 ELSE 0]
      marked == IF g.lastMove = NoMove THEN NoMove
                ELSE [g.lastMove EXCEPT
                        !.isCastle = @ \/ (isCastle /\ rook # NoPiece /\ rook.type = "rook"),
                        !.promotion = IF isPromotion THEN promotionType ELSE @]
      b2 == [b1 EXCEPT ![to[1]][to[2]] = piece, ![from[1]][from[2]] = NoPiece]
      g2 == [g EXCEPT
               !.board = b2,
               !.lastMove = marked,
               !.castlingRights = updateCastlingRights(g.castlingRights, piece, from),
               !.halfMoveClock = IF piece.type = "pawn" \/ b2[to[1]][to[2]] # NoPiece
                                   THEN 0 ELSE g.halfMoveClock + 1,
               !.fullMoveNumber = IF g.currentTurn = "black" THEN @ + 1 ELSE @,
               !.currentTurn = Opponent(g.currentTurn)]
  IN [updateGameStatus(g2) EXCEPT
        !.lastMove = [from |-> from, to |-> to, piece |-> piece, promotion |-> req.promotion,
                      isCastle |-> FALSE, isEnPassant |-> FALSE]]

\* handleMove recording the attempted move before it validates it
handleMove_RecordsAttempt(g, req) ==
  LET from == req.from
      to == req.to
      piece == req.piece
      attempt == [from |-> from, to |-> to, piece |-> piece, promotion |-> req.promotion,
                  isCastle |-> FALSE, isEnPassant |-> FALSE]
  IN IF g.players = 0 THEN Result(g, "GameNotFound", "none")
     ELSE IF g.status # "playing" THEN Result(g, "NotPlaying", "none")
     ELSE IF piece.color # g.currentTurn THEN Result(g, "WrongTurn", "error")
     ELSE IF from[1] < 0 \/ from[1] > 7 THEN Result(g, "Exception", "none")
     ELSE IF from[2] < 0 \/ from[2] > 7 THEN Result(g, "NoPiece", "error")
     ELSE IF g.board[from[1]][from[2]] = NoPiece THEN Result(g, "NoPiece", "error")
     ELSE IF g.board[from[1]][from[2]].id # piece.id THEN Result(g, "PieceMismatch", "error")
     ELSE IF ~isValidMove(g.board, piece, from[1], from[2], to[1], to[2])
       THEN IF to[1] < 0 \/ to[1] > 7 THEN Result(g, "Exception", "none")
            ELSE Result([g EXCEPT !.lastMove = attempt], "InvalidMove", "error")
     ELSE Result(applyMove(g, req), "Applied", "move")

\* handleMove without the test of the turn
handleMove_AnyTurn(g, req) ==
  LET from == req.from
      to == req.to
      piece == req.piece
  IN IF g.players = 0 THEN Result(g, "GameNotFound", "none")
     ELSE IF g.status # "playing" THEN Result(g, "NotPlaying", "none")
     ELSE IF from[1] < 0 \/ from[1] > 7 THEN Result(g, "Exception", "none")
     ELSE IF from[2] < 0 \/ from[2] > 7 THEN Result(g, "NoPiece", "error")
     ELSE IF g.board[from[1]][from[2]] = NoPiece THEN Result(g, "NoPiece", "error")
     ELSE IF g.board[from[1]][from[2]].id # piece.id THEN Result(g, "PieceMismatch", "error")
     ELSE IF ~isValidMove(g.board, piece, from[1], from[2], to[1], to[2])
       THEN IF to[1] < 0 \/ to[1] > 7 THEN Result(g, "Exception", "none")
            ELSE Result(g, "InvalidMove", "error")
     ELSE Result(applyMove(g, req), "Applied", "move")

\* handleMove without the comparison of the ids
handleMove_SkipsIdentity(g, req) ==
  LET from == req.from
      to == req.to
      piece == req.piece
  IN IF g.players = 0 THEN Result(g, "GameNotFound", "none")
     ELSE IF g.status # "playing" THEN Result(g, "NotPlaying", "none")
     ELSE IF piece.color # g.currentTurn THEN Result(g, "WrongTurn", "error")
     ELSE IF from[1] < 0 \/ from[1] > 7 THEN Result(g, "Exception", "none")
     ELSE IF from[2] < 0 \/ from[2] > 7 THEN Result(g, "NoPiece", "error")
     ELSE IF g.board[from[1]][from[2]] = NoPiece THEN Result(g, "NoPiece", "error")
     ELSE IF ~isValidMove(g.board, piece, from[1], from[2], to[1], to[2])
       THEN IF to[1] < 0 \/ to[1] > 7 THEN Result(g, "Exception", "none")
            ELSE Result(g, "InvalidMove", "error")
     ELSE Result(applyMove(g, req), "Applied", "move")

\* a request: from, to (maybe off the board), the claimed piece, the promotion choice
\* ("none": absent) and the Date.now() of the call
handleMove(g, req) ==
  LET from == req.from
      to == req.to
      piece == req.piece
  IN IF g.players = 0 THEN Result(g, "GameNotFound", "none")
     ELSE IF g.status # "playing" THEN Result(g, "NotPlaying", "none")
     ELSE IF piece.color # g.currentTurn THEN Result(g, "WrongTurn", "error")
     ELSE IF from[1] < 0 \/ from[1] > 7 THEN Result(g, "Exception", "none")
     ELSE IF from[2] < 0 \/ from[2] > 7 THEN Result(g, "NoPiece", "error")
     ELSE IF g.board[from[1]][from[2]] = NoPiece THEN Result(g, "NoPiece", "error")
     ELSE IF g.board[from[1]][from[2]].id # piece.id THEN Result(g, "PieceMismatch", "error")
     ELSE IF ~isValidMove(g.board, piece, from[1], from[2], to[1], to[2])
       THEN IF to[1] < 0 \/ to[1] > 7 THEN Result(g, "Exception", "none")
            ELSE Result(g, "InvalidMove", "error")
     ELSE Result(applyMove(g, req), "Applied", "move")

handleJoin(g) ==
  IF g.players >= 2 THEN Result(g, "GameFull", "error")
  ELSE LET n == g.players + 1
       IN Result([g EXCEPT !.players = n,
                           !.status = IF n = 2 THEN "playing" ELSE "waiting"],
                 "Joined", "welcome")

handlePromotion(g, row, col, promotionType, stamp) ==
  IF g.players = 0 THEN Result(g, "GameNotFound", "none")
  ELSE IF row < 0 \/ row > 7 THEN Result(g, "Exception", "none")
  ELSE IF col < 0 \/ col > 7 THEN Result(g, "Ignored", "none")
  ELSE LET piece == g.board[row][col]
       IN IF piece # NoPiece /\ piece.type = "pawn"
            THEN LET promoted == [piece EXCEPT !.type = promotionType,
                                    !.id = PromotedId(piece.color, promotionType, stamp)]
                 IN Result(updateGameStatus([g EXCEPT !.board[row][col] = promoted]),
                           "Promoted", "promotion")
            ELSE Result(g, "Ignored", "none")

----
(* The session driven by its clients *)

MaxSteps == 6
MaxUiMoves == 1
MaxStamp == 0
Stamps == 0..MaxStamp

\* a move message; playerId names the sender by the side handleJoin gave it: here the
\* owner of the piece, SentBy puts another sender
Request(from, to, piece, promotion, stamp) ==
  [from |-> from, to |-> to, piece |-> piece, promotion |-> promotion, stamp |-> stamp,
   playerId |-> piece.color]

SentBy(req, playerId) == [req EXCEPT !.playerId = playerId]

\* the sides handleJoin has given out: white to the first player, black to the second
Joined(g) == {c \in Colors : (c = "white" /\ g.players >= 1) \/ (c = "black" /\ g.players >= 2)}

Terminal == {"checkmate", "stalemate", "draw"}

\* a handler call ended with result r
Handled(r) ==
  /\ r.outcome \in {"Applied", "Promoted"} => budget > 0
  /\ game' = r.game
  /\ outcome' = [kind |-> r.outcome, reply |-> r.reply]
  /\ budget' = IF r.outcome \in {"Applied", "Promoted"} THEN budget - 1 ELSE budget
  /\ over' = (over \/ r.game.status \in Terminal)
  /\ UNCHANGED <<line, client, socket>>

Join == Handled(handleJoin(game))

\* the piece a client claims, when it differs from what the board holds
Claimed(piece, type) == [piece EXCEPT !.type = type]

\* move messages of clients that do not go through the board component: the payload is
\* what the sender wrote, whatever the server's board holds
Tries ==
  { Request(<<6, 5>>, <<5, 5>>, Piece("pawn", "white", 5, FALSE), "none", 0),    \* f2-f3
    Request(<<6, 6>>, <<4, 6>>, Piece("pawn", "white", 6, FALSE), "none", 0),    \* g2-g4
    Request(<<6, 4>>, <<4, 4>>, Piece("pawn", "white", 4, FALSE), "none", 0),    \* e2-e4
    Request(<<1, 4>>, <<3, 4>>, Piece("pawn", "black", 4, FALSE), "none", 0),    \* e7-e5
    Request(<<0, 3>>, <<4, 7>>, Piece("queen", "black", 3, FALSE), "none", 0),   \* Qd8-h4
    \* the pawn on f2 sent as a king, the pawn on e2 sent as a bishop
    Request(<<6, 5>>, <<5, 5>>, Claimed(Piece("pawn", "white", 5, FALSE), "king"), "none", 0),
    Request(<<6, 4>>, <<5, 3>>, Claimed(Piece("pawn", "white", 4, FALSE), "bishop"), "none", 0),
    \* the id of another piece, a destination and an origin off the board
    Request(<<6, 4>>, <<5, 4>>, Piece("pawn", "white", 3, FALSE), "none", 0),
    Request(<<6, 0>>, <<8, 0>>, Piece("pawn", "white", 0, FALSE), "none", 0),
    Request(<<-1, 0>>, <<0, 0>>, Piece("pawn", "white", 0, FALSE), "none", 0) }

Move(req) == Handled(handleMove(game, req))

\* promotion messages: square and kind are the sender's, nothing restricts them
PromotionTries == {<<6, 1, "king">>, <<6, 0, "rook">>, <<6, 7, "rook">>}

Promote(row, col, promotionType, stamp) ==
  Handled(handlePromotion(game, row, col, promotionType, stamp))

\* a GameService as constructed: no game state, nothing selected, no valid moves
NewClient ==
  [board |-> <<>>, currentTurn |-> "none", color |-> "none",
   selectedPiece |-> [row |-> -1, col |-> -1, piece |-> NoPiece],
   validMoves |-> {}, movesOf |-> NoPiece,
   toServer |-> <<>>, toClient |-> <<>>]

\* a WebSocketService as constructed: connect() has created the first socket
NewService ==
  [sockets |-> <<[readyState |-> "CONNECTING", queued |-> FALSE]>>,
   isConnected |-> FALSE, timers |-> [lost |-> 0, disconnected |-> 0],
   wrote |-> FALSE, quiet |-> FALSE]

Init ==
  /\ game = createGame
  /\ client = NewClient
  /\ socket = NewService
  /\ outcome = [kind |-> "none", reply |-> "none"]
  /\ budget = MaxSteps
  /\ over = FALSE
  /\ line = <<>>

Next ==
  \/ Join
  \/ \E req \in Tries : Move(req)
  \/ \E p \in PromotionTries, stamp \in Stamps : Promote(p[1], p[2], p[3], stamp)

Spec == Init /\ [][Next]_vars

----
(* Games played through the board component *)

\* GameService.movePiece: the selected piece is of the side to move, the destination is
\* one of the squares the server listed for it, the payload repeats the piece as the
\* board holds it, a pawn reaching the last rank carries the chosen kind
UiPromotions == {"queen", "rook", "bishop", "knight"}

UiRequests(g, from) ==
  LET piece == g.board[from[1]][from[2]]
      lastRow == IF piece.color = "white" THEN 0 ELSE 7
  IN IF piece = NoPiece \/ piece.color # g.currentTurn THEN {}
     ELSE UNION { IF piece.type = "pawn" /\ to[1] = lastRow
                    THEN {Request(from, to, piece, promotion, 0) : promotion \in UiPromotions}
                    ELSE {Request(from, to, piece, "none", 0)} :
                  to \in getValidMoves(g.board, piece, from[1], from[2]) \cap Squares }

UiMove(from) ==
  /\ line = <<>>
  /\ budget > 0
  /\ \E req \in UiRequests(game, from) : Move(req)

\* the next move of the agreed opening, sent as the board component sends it
Replay ==
  /\ line # <<>>
  /\ \E req \in UiRequests(game, Head(line)[1]) :
       /\ req.to = Head(line)[2]
       /\ LET r == handleMove(game, req)
          IN /\ game' = r.game
             /\ outcome' = [kind |-> r.outcome, reply |-> r.reply]
             /\ over' = (over \/ r.game.status \in Terminal)
  /\ line' = Tail(line)
  /\ UNCHANGED <<budget, client, socket>>

JoinedGame == handleJoin(handleJoin(createGame).game).game

\* openings, as <<from, to>> pairs; none of their moves gives check

\* white may castle kingside
KingsideReady ==
  <<<<<<6, 4>>, <<4, 4>>>>, <<<<1, 4>>, <<3, 4>>>>, <<<<7, 6>>, <<5, 5>>>>, <<<<0, 1>>, <<2, 2>>>>,
    <<<<7, 5>>, <<4, 2>>>>, <<<<0, 5>>, <<3, 2>>>>>>

\* black can give check from b4 or f2
CheckAhead ==
  <<<<<<6, 4>>, <<4, 4>>>>, <<<<1, 4>>, <<3, 4>>>>, <<<<7, 6>>, <<5, 5>>>>, <<<<0, 1>>, <<2, 2>>>>,
    <<<<7, 5>>, <<4, 2>>>>, <<<<0, 5>>, <<3, 2>>>>, <<<<6, 3>>, <<5, 3>>>>>>

\* the bishop on c5 attacks g1
DestinationAttacked ==
  <<<<<<6, 4>>, <<4, 4>>>>, <<<<1, 4>>, <<3, 4>>>>, <<<<6, 5>>, <<4, 5>>>>, <<<<0, 5>>, <<3, 2>>>>,
    <<<<7, 6>>, <<5, 5>>>>, <<<<1, 3>>, <<2, 3>>>>, <<<<7, 5>>, <<4, 2>>>>>>

\* black can attack f1 from a6
TransitAhead ==
  <<<<<<6, 4>>, <<4, 4>>>>, <<<<1, 1>>, <<2, 1>>>>, <<<<6, 6>>, <<5, 6>>>>, <<<<1, 4>>, <<2, 4>>>>,
    <<<<7, 5>>, <<6, 6>>>>, <<<<0, 6>>, <<1, 4>>>>, <<<<7, 6>>, <<5, 5>>>>>>

\* the white king has moved and is back on e1
KingReturned ==
  <<<<<<6, 4>>, <<4, 4>>>>, <<<<1, 4>>, <<3, 4>>>>, <<<<7, 6>>, <<5, 5>>>>, <<<<0, 1>>, <<2, 2>>>>,
    <<<<7, 5>>, <<4, 2>>>>, <<<<0, 5>>, <<3, 2>>>>, <<<<7, 4>>, <<6, 4>>>>, <<<<0, 6>>, <<2, 5>>>>,
    <<<<6, 4>>, <<7, 4>>>>, <<<<2, 5>>, <<0, 6>>>>>>

\* the white h-rook has moved and is back on h1
RookReturned ==
  <<<<<<6, 4>>, <<4, 4>>>>, <<<<1, 4>>, <<3, 4>>>>, <<<<7, 6>>, <<5, 5>>>>, <<<<0, 1>>, <<2, 2>>>>,
    <<<<7, 5>>, <<4, 2>>>>, <<<<0, 5>>, <<3, 2>>>>, <<<<7, 7>>, <<7, 6>>>>, <<<<0, 6>>, <<2, 5>>>>,
    <<<<7, 6>>, <<7, 7>>>>, <<<<2, 5>>, <<0, 6>>>>>>

\* both sides may castle queenside
QueensideReady ==
  <<<<<<6, 3>>, <<4, 3>>>>, <<<<1, 3>>, <<3, 3>>>>, <<<<7, 1>>, <<5, 2>>>>, <<<<0, 1>>, <<2, 2>>>>,
    <<<<7, 2>>, <<4, 5>>>>, <<<<0, 2>>, <<3, 5>>>>, <<<<7, 3>>, <<6, 3>>>>, <<<<0, 3>>, <<1, 3>>>>>>

\* f5-f4 leaves white without a move
StalemateAhead ==
  <<<<<<6, 3>>, <<4, 3>>>>, <<<<1, 3>>, <<2, 3>>>>, <<<<7, 3>>, <<6, 3>>>>, <<<<1, 4>>, <<3, 4>>>>,
    <<<<6, 0>>, <<4, 0>>>>, <<<<3, 4>>, <<4, 4>>>>, <<<<6, 3>>, <<4, 5>>>>, <<<<1, 5>>, <<3, 5>>>>,
    <<<<6, 7>>, <<5, 7>>>>, <<<<0, 5>>, <<1, 4>>>>, <<<<4, 5>>, <<6, 7>>>>, <<<<0, 2>>, <<2, 4>>>>,
    <<<<7, 0>>, <<5, 0>>>>, <<<<1, 2>>, <<3, 2>>>>, <<<<7, 1>>, <<6, 3>>>>, <<<<0, 3>>, <<3, 0>>>>,
    <<<<5, 0>>, <<5, 6>>>>, <<<<1, 4>>, <<4, 7>>>>, <<<<6, 5>>, <<5, 5>>>>, <<<<2, 4>>, <<5, 1>>>>,
    <<<<4, 3>>, <<3, 3>>>>, <<<<4, 4>>, <<5, 4>>>>, <<<<6, 2>>, <<4, 2>>>>>>

\* the black f-pawn has just passed the white pawn on g5
EnPassantAhead ==
  <<<<<<6, 6>>, <<4, 6>>>>, <<<<1, 4>>, <<3, 4>>>>, <<<<4, 6>>, <<3, 6>>>>, <<<<1, 5>>, <<3, 5>>>>>>

\* white's c2-c4 is the last move white has
MoverFrozenAhead ==
  <<<<<<6, 3>>, <<5, 3>>>>, <<<<1, 3>>, <<2, 3>>>>, <<<<5, 3>>, <<4, 3>>>>, <<<<1, 4>>, <<3, 4>>>>,
    <<<<7, 3>>, <<6, 3>>>>, <<<<3, 4>>, <<4, 4>>>>, <<<<6, 0>>, <<4, 0>>>>, <<<<1, 5>>, <<3, 5>>>>,
    <<<<6, 3>>, <<4, 5>>>>, <<<<0, 5>>, <<1, 4>>>>, <<<<6, 7>>, <<5, 7>>>>, <<<<0, 2>>, <<2, 4>>>>,
    <<<<4, 5>>, <<6, 7>>>>, <<<<1, 2>>, <<3, 2>>>>, <<<<7, 0>>, <<5, 0>>>>, <<<<1, 4>>, <<4, 7>>>>,
    <<<<7, 1>>, <<6, 3>>>>, <<<<0, 3>>, <<3, 0>>>>, <<<<5, 0>>, <<5, 6>>>>, <<<<2, 4>>, <<5, 1>>>>,
    <<<<6, 5>>, <<5, 5>>>>, <<<<4, 4>>, <<5, 4>>>>, <<<<4, 3>>, <<3, 3>>>>, <<<<3, 5>>, <<4, 5>>>>>>

\* the white pawn on b7 can step to b8 or capture on a8 or c8
PromotionAhead ==
  <<<<<<6, 0>>, <<4, 0>>>>, <<<<0, 1>>, <<2, 2>>>>, <<<<4, 0>>, <<3, 0>>>>, <<<<2, 2>>, <<3, 4>>>>,
    <<<<3, 0>>, <<2, 0>>>>, <<<<3, 4>>, <<2, 6>>>>, <<<<2, 0>>, <<1, 1>>>>, <<<<1, 7>>, <<2, 7>>>>>>

\* the white h-rook stands on a3; king and a-rook have not moved
RookOnAFile ==
  <<<<<<6, 7>>, <<4, 7>>>>, <<<<1, 0>>, <<2, 0>>>>, <<<<7, 7>>, <<5, 7>>>>, <<<<1, 1>>, <<2, 1>>>>,
    <<<<5, 7>>, <<5, 0>>>>, <<<<1, 7>>, <<2, 7>>>>>>

Lines == {KingsideReady,
          RookOnAFile,
          PromotionAhead,
          MoverFrozenAhead,
          EnPassantAhead,
          CheckAhead,
          DestinationAttacked,
          TransitAhead,
          KingReturned,
          RookReturned,
          QueensideReady,
          StalemateAhead}

InitUi ==
  /\ game = JoinedGame
  /\ client = NewClient
  /\ socket = NewService
  /\ outcome = [kind |-> "none", reply |-> "none"]
  /\ budget = MaxUiMoves
  /\ over = FALSE
  /\ line \in Lines

NextUi ==
  \/ Replay
  \/ \E from \in Squares : UiMove(from)

SpecUi == InitUi /\ [][NextUi]_vars

----
(* The GameService of the white player, its connection open *)

MaxPending == 2
MaxClientMoves == 1

NoSelection == [row |-> -1, col |-> -1, piece |-> NoPiece]

\* the squares the player clicks: the knight on b1, the pawn on e2, the empty e4, the
\* black pawn on e7
Clicked == {<<7, 1>>, <<6, 4>>, <<4, 4>>, <<1, 4>>}

Message(type, from, to, piece, promotion, validMoves, board, currentTurn) ==
  [type |-> type, from |-> from, to |-> to, piece |-> piece, promotion |-> promotion,
   validMoves |-> validMoves, board |-> board, currentTurn |-> currentTurn]

NoSquare == <<-1, -1>>

\* the service after handleWelcome and handlePlayerJoined, both players present
Welcomed(g) ==
  [NewClient EXCEPT !.board = g.board, !.currentTurn = g.currentTurn, !.color = "white"]

Pending == Len(client.toServer) + Len(client.toClient)

selectPiece(row, col) ==
  LET piece == client.board[row][col]
  IN /\ IF piece = NoPiece
          THEN client' = [client EXCEPT !.selectedPiece = NoSelection, !.validMoves = {}]
          ELSE IF piece.color # client.color \/ piece.color # client.currentTurn
            THEN client' = client
            ELSE /\ Pending < MaxPending
                 /\ client' = [client EXCEPT
                      !.selectedPiece = [row |-> row, col |-> col, piece |-> piece],
                      !.validMoves = {},
                      !.toServer = Append(@, Message("getValidMoves", <<row, col>>, NoSquare,
                                                     NoPiece, "none", {}, <<>>, "none"))]
     /\ UNCHANGED <<game, outcome, budget, over, line, socket>>

deselectPiece ==
  /\ client' = [client EXCEPT !.selectedPiece = NoSelection, !.validMoves = {}]
  /\ UNCHANGED <<game, outcome, budget, over, line, socket>>

movePiece(to) ==
  LET selectedPiece == client.selectedPiece
      piece == selectedPiece.piece
      from == <<selectedPiece.row, selectedPiece.col>>
      isPawnPromotion == piece.type = "pawn"
                           /\ to[1] = (IF piece.color = "white" THEN 0 ELSE 7)
  IN /\ selectedPiece # NoSelection
     /\ to \in client.validMoves
     /\ budget > 0
     /\ Pending < MaxPending
     /\ \E promotion \in IF isPawnPromotion THEN UiPromotions ELSE {"none"} :
          client' = [client EXCEPT
            !.toServer = Append(@, Message("move", from, to, piece, promotion, {}, <<>>, "none"))]
     /\ budget' = budget - 1
     /\ UNCHANGED <<game, outcome, over, line, socket>>

\* the server's answer to a getValidMoves message
handleGetValidMoves(g, row, col) ==
  LET piece == g.board[row][col]
  IN IF g.players = 0 \/ piece = NoPiece \/ piece.color # g.currentTurn
       THEN <<>>
       ELSE <<Message("validMoves", NoSquare, NoSquare, piece, "none",
                      getValidMoves(g.board, piece, row, col), <<>>, "none")>>

\* what handleMove sends to this client: the broadcast of the move, or the error
Sent(m, r) ==
  IF r.reply = "move"
    THEN <<Message("move", m.from, m.to, m.piece, "none", {}, r.game.board, r.game.currentTurn)>>
  ELSE IF r.reply = "error"
    THEN <<Message("error", NoSquare, NoSquare, NoPiece, "none", {}, <<>>, "none")>>
  ELSE <<>>

\* the server has handled the move message m with result r
Served(m, r) ==
  /\ game' = r.game
  /\ outcome' = [kind |-> r.outcome, reply |-> r.reply]
  /\ over' = (over \/ r.game.status \in Terminal)
  /\ client' = [client EXCEPT !.toServer = Tail(@), !.toClient = @ \o Sent(m, r)]
  /\ UNCHANGED <<budget, line, socket>>

\* the server takes the next message of the connection: a move
ServerMoves ==
  /\ client.toServer # <<>>
  /\ Head(client.toServer).type = "move"
  /\ Served(Head(client.toServer),
            handleMove(game, SentBy(Request(Head(client.toServer).from, Head(client.toServer).to,
                                            Head(client.toServer).piece,
                                            Head(client.toServer).promotion, 0),
                                    client.color)))

\* the server takes the next message of the connection: a getValidMoves
ServerLists ==
  /\ client.toServer # <<>>
  /\ Head(client.toServer).type = "getValidMoves"
  /\ client' = [client EXCEPT
       !.toServer = Tail(@),
       !.toClient = @ \o handleGetValidMoves(game, Head(client.toServer).from[1],
                                             Head(client.toServer).from[2])]
  /\ UNCHANGED <<game, outcome, budget, over, line, socket>>

GameService_handleValidMoves(c, payload) ==
  [c EXCEPT !.validMoves = payload.validMoves, !.movesOf = payload.piece]

GameService_handleMove(c, payload) ==
  [c EXCEPT !.board = payload.board, !.currentTurn = payload.currentTurn,
            !.selectedPiece = NoSelection, !.validMoves = {}]

GameService_handleError(c, payload) ==
  [c EXCEPT !.selectedPiece = NoSelection, !.validMoves = {}]

handleIncomingMessage ==
  /\ client.toClient # <<>>
  /\ LET message == Head(client.toClient)
         c == [client EXCEPT !.toClient = Tail(@)]
     IN client' = IF message.type = "validMoves" THEN GameService_handleValidMoves(c, message)
                  ELSE IF message.type = "move" THEN GameService_handleMove(c, message)
                  ELSE GameService_handleError(c, message)
  /\ UNCHANGED <<game, outcome, budget, over, line, socket>>

InitClient ==
  /\ game = JoinedGame
  /\ outcome = [kind |-> "none", reply |-> "none"]
  /\ budget = MaxClientMoves
  /\ over = FALSE
  /\ line = <<>>
  /\ client = Welcomed(JoinedGame)
  /\ socket = NewService

NextClient ==
  \/ \E s \in Clicked : selectPiece(s[1], s[2])
  \/ deselectPiece
  \/ \E to \in Squares : movePiece(to)
  \/ ServerLists
  \/ ServerMoves
  \/ handleIncomingMessage

SpecClient == InitClient /\ [][NextClient]_vars

----
(* The WebSocketService of a client *)

MaxSockets == 3
MaxTimers == 2

\* connect(): a new socket replaces this.socket; the earlier ones keep their handlers
opened(service, queued) ==
  [service EXCEPT !.sockets = Append(@, [readyState |-> "CONNECTING", queued |-> queued])]

\* this.socket
Current(service) == service.sockets[Len(service.sockets)]

\* the caller invokes connect()
connect ==
  /\ Len(socket.sockets) < MaxSockets
  /\ socket' = [opened(socket, FALSE) EXCEPT !.quiet = FALSE]
  /\ UNCHANGED <<game, outcome, budget, over, line, client>>

\* the timers onclose has set and that have not run out: those set when a connection
\* was lost and those set when a socket that disconnect() closed was closed
Timers(service) == service.timers.lost + service.timers.disconnected

\* a timer set by onclose runs out
setTimeout ==
  /\ Len(socket.sockets) < MaxSockets
  /\ \E cause \in {"lost", "disconnected"} :
       /\ socket.timers[cause] > 0
       /\ socket' = [opened(socket, FALSE) EXCEPT !.timers[cause] = @ - 1]
  /\ UNCHANGED <<game, outcome, budget, over, line, client>>

\* socket i is connected; the message send() left for it goes out on this.socket
onopen(i) ==
  /\ socket.sockets[i].readyState = "CONNECTING"
  /\ LET now == [socket EXCEPT !.sockets[i] = [readyState |-> "OPEN", queued |-> FALSE],
                               !.isConnected = TRUE]
     IN socket' = IF socket.sockets[i].queued /\ Current(now).readyState = "OPEN"
                    THEN [now EXCEPT !.wrote = TRUE]
                    ELSE now
  /\ UNCHANGED <<game, outcome, budget, over, line, client>>

\* socket i fails to connect: the error event, then the close event
onerror(i) ==
  /\ socket.sockets[i].readyState = "CONNECTING"
  /\ Timers(socket) < MaxTimers
  /\ socket' = [socket EXCEPT !.sockets[i] = [readyState |-> "CLOSED", queued |-> FALSE],
                              !.isConnected = FALSE,
                              !.timers.lost = @ + 1]
  /\ UNCHANGED <<game, outcome, budget, over, line, client>>

\* socket i is closed, by the server or after close()
onclose(i) ==
  /\ socket.sockets[i].readyState \in {"OPEN", "CLOSING"}
  /\ Timers(socket) < MaxTimers
  /\ LET cause == IF socket.sockets[i].readyState = "CLOSING" THEN "disconnected" ELSE "lost"
     IN socket' = [socket EXCEPT !.sockets[i] = [readyState |-> "CLOSED", queued |-> FALSE],
                                 !.isConnected = FALSE,
                                 !.timers[cause] = @ + 1]
  /\ UNCHANGED <<game, outcome, budget, over, line, client>>

send ==
  /\ IF socket.isConnected /\ Current(socket).readyState = "OPEN"
       THEN socket' = [socket EXCEPT !.wrote = TRUE, !.quiet = FALSE]
       ELSE /\ Len(socket.sockets) < MaxSockets
            /\ socket' = [opened(socket, TRUE) EXCEPT !.wrote = FALSE, !.quiet = FALSE]
  /\ UNCHANGED <<game, outcome, budget, over, line, client>>

disconnect ==
  /\ LET i == Len(socket.sockets)
         closing == IF socket.sockets[i].readyState \in {"CONNECTING", "OPEN"}
                      THEN [socket EXCEPT !.sockets[i].readyState = "CLOSING"]
                      ELSE socket
     IN socket' = [closing EXCEPT !.isConnected = FALSE, !.quiet = TRUE]
  /\ UNCHANGED <<game, outcome, budget, over, line, client>>

InitSocket ==
  /\ game = createGame
  /\ outcome = [kind |-> "none", reply |-> "none"]
  /\ budget = 0
  /\ over = FALSE
  /\ line = <<>>
  /\ client = NewClient
  /\ socket = NewService

NextSocket ==
  \/ connect
  \/ setTimeout
  \/ \E i \in 1..Len(socket.sockets) : onopen(i)
  \/ \E i \in 1..Len(socket.sockets) : onerror(i)
  \/ \E i \in 1..Len(socket.sockets) : onclose(i)
  \/ send
  \/ disconnect

SpecSocket == InitSocket /\ [][NextSocket]_vars

----
(* Properties *)

\* the rules of chess, stated apart from the engine: the squares strictly between two
\* squares of one rank, file or diagonal
Between(s, t) ==
  LET dr == t[1] - s[1]
      dc == t[2] - s[2]
  IN IF dr = 0 \/ dc = 0 \/ Abs(dr) = Abs(dc)
       THEN {<<s[1] + i * Sign(dr), s[2] + i * Sign(dc)>> : i \in 1..(Max2(Abs(dr), Abs(dc)) - 1)}
       ELSE {}

\* the piece on s attacks t
Reaches(b, s, t) ==
  LET p == b[s[1]][s[2]]
      dr == t[1] - s[1]
      dc == t[2] - s[2]
      open == \A q \in Between(s, t) : b[q[1]][q[2]] = NoPiece
  IN /\ s # t
     /\ CASE p.type = "pawn" -> dr = (IF p.color = "white" THEN -1 ELSE 1) /\ Abs(dc) = 1
          [] p.type = "knight" -> {Abs(dr), Abs(dc)} = {1, 2}
          [] p.type = "king" -> Abs(dr) <= 1 /\ Abs(dc) <= 1
          [] p.type = "rook" -> (dr = 0 \/ dc = 0) /\ open
          [] p.type = "bishop" -> Abs(dr) = Abs(dc) /\ open
          [] p.type = "queen" -> (dr = 0 \/ dc = 0 \/ Abs(dr) = Abs(dc)) /\ open
          [] OTHER -> FALSE

AttackedBy(b, color, t) ==
  \E s \in Squares : b[s[1]][s[2]].color = color /\ Reaches(b, s, t)

\* a king of `color` stands attacked
KingExposed(b, color) ==
  \E k \in KingSquares(b, color) : AttackedBy(b, Opponent(color), k)

\* the side `color` has a move the engine accepts
HasLegalMove(b, color) ==
  \E s \in Squares :
    /\ b[s[1]][s[2]].color = color
    /\ \E d \in Squares : isValidMove(b, b[s[1]][s[2]], s[1], s[2], d[1], d[2])

\* the move message the board component would send for the piece on `from`
Honest(g, from, to) == Request(from, to, g.board[from[1]][from[2]], "none", 0)

\* the pawn on `from` may capture en passant on `to`: the last move was a pawn's double
\* advance that landed beside it, `to` is the square that pawn skipped, and the capture
\* does not expose the capturer's king
EnPassantBoard(g, from, to) ==
  [g.board EXCEPT ![to[1]][to[2]] = g.board[from[1]][from[2]],
                  ![from[1]][from[2]] = NoPiece,
                  ![g.lastMove.to[1]][g.lastMove.to[2]] = NoPiece]

EnPassantOffer(g, from, to) ==
  LET lm == g.lastMove
      p == g.board[from[1]][from[2]]
  IN /\ g.status = "playing"
     /\ lm # NoMove
     /\ lm.piece.type = "pawn"
     /\ Abs(lm.to[1] - lm.from[1]) = 2
     /\ lm.to[2] = lm.from[2]
     /\ g.board[lm.to[1]][lm.to[2]] = lm.piece
     /\ p.type = "pawn"
     /\ p.color = g.currentTurn
     /\ p.color # lm.piece.color
     /\ from[1] = lm.to[1]
     /\ Abs(from[2] - lm.to[2]) = 1
     /\ to = <<(lm.from[1] + lm.to[1]) \div 2, lm.to[2]>>
     /\ ~KingExposed(EnPassantBoard(g, from, to), p.color)

\* C1: for every piece of the side to move no destination listed by getValidMoves, and
\* no move handleMove applies, leaves a king of the moving side attacked by an opposing
\* piece.
C1_NoMoveExposesOwnKing ==
  /\ \A s \in Squares :
       LET p == game.board[s[1]][s[2]]
       IN p.color = game.currentTurn =>
            \A d \in getValidMoves(game.board, p, s[1], s[2]) \cap Squares :
              ~KingExposed(simulateMove(game.board, s[1], s[2], d[1], d[2], p), p.color)
  /\ outcome.kind = "Applied" => ~KingExposed(game.board, game.lastMove.piece.color)

\* C2: in status check the side to move can still have a move applied: some move the
\* server lists for it is accepted by handleMove.
C2_CheckStillAcceptsMoves ==
  game.status = "check" =>
    \E from \in Squares : \E req \in UiRequests(game, from) :
      handleMove(game, req).outcome = "Applied"

\* C3: for every piece on the board, the destinations getValidMoves lists are exactly
\* the squares for which isValidMove answers yes.
C3_ListedMovesAreTheValidMoves ==
  \A s \in Squares :
    LET p == game.board[s[1]][s[2]]
    IN p # NoPiece =>
         getValidMoves(game.board, p, s[1], s[2])
           = {d \in Squares : isValidMove(game.board, p, s[1], s[2], d[1], d[2])}

\* C4: a move request that handleMove rejects leaves the whole game as it was, and the
\* same request made again is rejected in the same way.
C4_RejectionChangesNothing ==
  \A req \in Tries :
    LET r == handleMove(game, req)
    IN r.outcome # "Applied" =>
         /\ r.game = game
         /\ handleMove(r.game, req).outcome = r.outcome
         /\ handleMove(r.game, req).game = game

C4_RejectedAfterPlay ==
  /\ outcome.kind \in {"InvalidMove", "WrongTurn", "NoPiece", "PieceMismatch", "Exception"}
  /\ game.lastMove # NoMove

\* C5: once a game has been announced as checkmate, stalemate or draw, no move is
\* applied to it any more.
C5_NoMoveAfterGameOver == [][over => outcome'.kind # "Applied"]_vars

\* the five preconditions of castling, for the king on k and the wing 1 (kingside) or -1
CastlingPreconditions(b, k, wing) ==
  LET king == b[k[1]][k[2]]
      corner == IF wing = 1 THEN 7 ELSE 0
      rook == b[k[1]][corner]
      them == Opponent(king.color)
  IN /\ ~king.hasMoved
     /\ ~AttackedBy(b, them, k)
     /\ rook.type = "rook" /\ rook.color = king.color /\ ~rook.hasMoved
     /\ \A c \in Cols : (Min2(k[2], corner) < c /\ c < Max2(k[2], corner))
                           => b[k[1]][c] = NoPiece
     /\ \A i \in 0..2 : ~AttackedBy(b, them, <<k[1], k[2] + i * wing>>)

\* C6: for the king of either side, the two-square move along its row is valid exactly
\* when the king has not moved, it is not attacked, the piece in the corner of that wing
\* is an unmoved rook of its side, the squares between them are empty, and no square from
\* the king's to its destination is attacked.
C6_CastlingIffPreconditions ==
  \A color \in Colors :
    Cardinality(KingSquares(game.board, color)) = 1 =>
      LET k == FirstKing(game.board, color)
      IN \A wing \in {-1, 1} :
           (k[2] + 2 * wing) \in Cols =>
             (isValidMove(game.board, game.board[k[1]][k[2]], k[1], k[2], k[1], k[2] + 2 * wing)
                <=> CastlingPreconditions(game.board, k, wing))

C6_CastlingPlayed ==
  /\ outcome.kind = "Applied"
  /\ game.lastMove.piece.type = "king"
  /\ Abs(game.lastMove.to[2] - game.lastMove.from[2]) = 2
  /\ game.board[game.lastMove.to[1]][(game.lastMove.from[2] + game.lastMove.to[2]) \div 2].type = "rook"

\* C7: when en passant is on offer, the capture is applied and takes the passed pawn
\* off the board.
C7_EnPassantIsApplied ==
  \A from \in Squares, to \in Squares :
    EnPassantOffer(game, from, to) =>
      LET r == handleMove(game, Honest(game, from, to))
      IN /\ r.outcome = "Applied"
         /\ r.game.board[game.lastMove.to[1]][game.lastMove.to[2]] = NoPiece

\* the squares diagonally ahead of the pawn p on `from`
PawnDiagonals(p, from) ==
  {<<from[1] + (IF p.color = "white" THEN -1 ELSE 1), from[2] + dc>> : dc \in {-1, 1}}
    \cap Squares

\* C8: a pawn is never moved diagonally onto an empty square, whatever the request
\* says of it, unless en passant is on offer there; the request is rejected and the game
\* stays as it was.
C8_EmptyDiagonalIsRejected ==
  \A from \in Squares :
    LET p == game.board[from[1]][from[2]]
    IN (p.type = "pawn" /\ p.color = game.currentTurn /\ game.status = "playing") =>
         \A to \in PawnDiagonals(p, from), type \in Kinds :
           (game.board[to[1]][to[2]] = NoPiece /\ ~EnPassantOffer(game, from, to)) =>
             LET r == handleMove(game, Request(from, to, Claimed(p, type), "none", 0))
             IN r.outcome # "Applied" /\ r.game = game

\* the fool's mate: f2-f3, e7-e5, g2-g4, Qd8-h4
FoolsMate ==
  << Request(<<6, 5>>, <<5, 5>>, Piece("pawn", "white", 5, FALSE), "none", 0),
     Request(<<1, 4>>, <<3, 4>>, Piece("pawn", "black", 4, FALSE), "none", 0),
     Request(<<6, 6>>, <<4, 6>>, Piece("pawn", "white", 6, FALSE), "none", 0),
     Request(<<0, 3>>, <<4, 7>>, Piece("queen", "black", 3, FALSE), "none", 0) >>

\* the board after the first n of them, written down square by square
FoolsBoard(n) ==
  [r \in Rows |-> [c \in Cols |->
     CASE n >= 1 /\ <<r, c>> = <<6, 5>> -> NoPiece
       [] n >= 1 /\ <<r, c>> = <<5, 5>> -> Piece("pawn", "white", 5, TRUE)
       [] n >= 2 /\ <<r, c>> = <<1, 4>> -> NoPiece
       [] n >= 2 /\ <<r, c>> = <<3, 4>> -> Piece("pawn", "black", 4, TRUE)
       [] n >= 3 /\ <<r, c>> = <<6, 6>> -> NoPiece
       [] n >= 3 /\ <<r, c>> = <<4, 6>> -> Piece("pawn", "white", 6, TRUE)
       [] n >= 4 /\ <<r, c>> = <<0, 3>> -> NoPiece
       [] n >= 4 /\ <<r, c>> = <<4, 7>> -> Piece("queen", "black", 3, TRUE)
       [] OTHER -> createInitialBoard[r][c]]]

\* C9: from the starting position f2-f3, e7-e5, g2-g4, Qd8-h4 are each applied, the
\* status is playing after each of the first three, and after the fourth it is checkmate
\* with black the winner.
C9_FoolsMate ==
  \A n \in 1..4 :
    (/\ game.board = FoolsBoard(n - 1)
     /\ game.players = 2
     /\ game.currentTurn = (IF n \in {1, 3} THEN "white" ELSE "black")
     /\ game.status = "playing")
      => LET r == handleMove(game, FoolsMate[n])
         IN /\ r.outcome = "Applied"
            /\ r.game.board = FoolsBoard(n)
            /\ r.game.status = (IF n = 4 THEN "checkmate" ELSE "playing")
            /\ r.game.winner = (IF n = 4 THEN "black" ELSE "none")

C9_Mated ==
  /\ outcome.kind = "Applied"
  /\ game.board = FoolsBoard(4)
  /\ game.lastMove.to = <<4, 7>>
  /\ game.status = "checkmate"
  /\ game.winner = "black"

\* C10: after an applied move, if the side to move has no legal move and its king is not
\* attacked, the status is stalemate and there is no winner.
C10_StalemateIsDeclared ==
  (/\ outcome.kind = "Applied"
   /\ ~KingExposed(game.board, game.currentTurn)
   /\ ~HasLegalMove(game.board, game.currentTurn))
    => game.status = "stalemate" /\ game.winner = "none"

C10_Stalemated ==
  /\ outcome.kind = "Applied"
  /\ ~KingExposed(game.board, game.currentTurn)
  /\ ~HasLegalMove(game.board, game.currentTurn)
  /\ game.status = "stalemate"

\* the move messages the board component can send in g
UiRequestsOf(g) == UNION {UiRequests(g, from) : from \in Squares}

\* req moves a piece other than a pawn onto an empty square of g
Quiet(g, req) ==
  /\ req.piece.type # "pawn"
  /\ g.board[req.to[1]][req.to[2]] = NoPiece

\* C11: an applied move of a piece other than a pawn onto an empty square adds one to
\* the half-move clock, an applied pawn move or capture puts it back to 0, and a clock
\* of 100 or more after the move makes the status draw.
C11_ClockCountsQuietMoves ==
  \A req \in UiRequestsOf(game) :
    LET r == handleMove(game, req)
    IN r.outcome = "Applied"
         => /\ r.game.halfMoveClock = (IF Quiet(game, req) THEN game.halfMoveClock + 1 ELSE 0)
            /\ r.game.halfMoveClock >= 100 => r.game.status = "draw"

\* the pairs <<origin, destination>> getValidMoves lists for the pieces of one side and
\* of the given kinds
ListedMoves(b, color, kinds) ==
  UNION { {<<s, d>> : d \in getValidMoves(b, b[s[1]][s[2]], s[1], s[2])} :
          s \in {q \in Squares : b[q[1]][q[2]].color = color /\ b[q[1]][q[2]].type \in kinds} }

\* C12: on the starting arrangement each side has 20 listed moves: 16 of its pawns, 4 of
\* its knights, none of any other piece.
C12_TwentyOpeningMoves ==
  game.board = createInitialBoard
    => \A color \in Colors :
         /\ Cardinality(ListedMoves(game.board, color, Kinds)) = 20
         /\ Cardinality(ListedMoves(game.board, color, {"pawn"})) = 16
         /\ Cardinality(ListedMoves(game.board, color, {"knight"})) = 4
         /\ ListedMoves(game.board, color, Kinds \ {"pawn", "knight"}) = {}

C12_OpeningPosition ==
  /\ game.board = createInitialBoard
  /\ game.status = "playing"
  /\ game.currentTurn = "white"
  /\ Cardinality(ListedMoves(game.board, game.currentTurn, Kinds)) = 20

\* C13: a move message of a player whose side is not the side to move is answered as
\* not being that player's turn and is never applied, whatever its payload.
C13_OnlyTheSideToMoveMoves ==
  \A req \in Tries \cup UiRequestsOf(game) :
    \A sender \in Joined(game) \ {game.currentTurn} :
      LET r == handleMove(game, SentBy(req, sender))
      IN /\ r.outcome # "Applied"
         /\ game.status = "playing" => r.outcome = "WrongTurn"

\* the pieces of the side to move a client has seen on the board of g
PiecesOn(g) == {p \in {g.board[s[1]][s[2]] : s \in Squares} : p.color = g.currentTurn}

\* the squares one row up or down from s
Steps(s) == {<<s[1] - 1, s[2]>>, <<s[1] + 1, s[2]>>} \cap Squares

\* C14: a move request whose origin square is empty, or holds a piece with another id
\* than the request names, is not applied and leaves the game as it was; when the game
\* is in play the sender gets an error.
C14_StaleReferenceIsRejected ==
  \A from \in Squares, piece \in PiecesOn(game) :
    LET actualPiece == game.board[from[1]][from[2]]
    IN (actualPiece = NoPiece \/ actualPiece.id # piece.id)
         => \A to \in Steps(from) :
              LET r == handleMove(game, Request(from, to, piece, "none", 0))
              IN /\ r.outcome # "Applied"
                 /\ r.game = game
                 /\ game.status = "playing"
                      => r.outcome \in {"NoPiece", "PieceMismatch"} /\ r.reply = "error"

C14_StaleRequestAnswered ==
  /\ outcome.kind = "PieceMismatch"
  /\ outcome.reply = "error"
  /\ game.lastMove # NoMove
  /\ game.status = "playing"

\* C15: every move request that is not applied is answered with an error message.
C15_RejectionsAreReported ==
  \A req \in Tries :
    LET r == handleMove(game, req)
    IN r.outcome # "Applied" => r.reply = "error"

\* C16: after an applied move the status is checkmate exactly when the side to move is
\* attacked and has no legal move, and stalemate exactly when the side to move is not
\* attacked and has no legal move.
C16_StatusIsForTheSideToMove ==
  outcome.kind = "Applied"
    => LET inCheck == KingExposed(game.board, game.currentTurn)
           frozen == ~HasLegalMove(game.board, game.currentTurn)
       IN /\ game.status = "checkmate" <=> (inCheck /\ frozen)
          /\ game.status = "stalemate" <=> (~inCheck /\ frozen)

\* C17: a winner is set exactly when the status is checkmate, and the winner is then
\* the side opposite to the mated side, which is the side to move.
C17_WinnerOnlyOnCheckmate ==
  /\ game.winner # "none" <=> game.status = "checkmate"
  /\ game.status = "checkmate" => game.winner = Opponent(game.currentTurn)

Wings == {"kingside", "queenside"}

\* C18: a castling right that is false stays false under every operation.
C18_CastlingRightsNeverReturn ==
  [][\A color \in Colors, wing \in Wings :
       ~game.castlingRights[color][wing] => ~game'.castlingRights[color][wing]]_vars

C18_RightsSpent ==
  /\ ~game.castlingRights["white"]["kingside"]
  /\ ~game.castlingRights["white"]["queenside"]
  /\ outcome.kind = "Applied"
  /\ game.lastMove.piece.color = "black"

\* the back rank of the standard arrangement, queenside first
BackRank == <<"rook", "knight", "bishop", "queen", "king", "bishop", "knight", "rook">>

\* g is a session as the standard says it starts, with the full-move number at n
NewSession(g, n) ==
  /\ \A s \in Squares :
       LET p == g.board[s[1]][s[2]]
       IN CASE s[1] = 0 -> p.type = BackRank[s[2] + 1] /\ p.color = "black" /\ ~p.hasMoved
            [] s[1] = 1 -> p.type = "pawn" /\ p.color = "black" /\ ~p.hasMoved
            [] s[1] = 6 -> p.type = "pawn" /\ p.color = "white" /\ ~p.hasMoved
            [] s[1] = 7 -> p.type = BackRank[s[2] + 1] /\ p.color = "white" /\ ~p.hasMoved
            [] OTHER -> p = NoPiece
  /\ \A color \in Colors, wing \in Wings : g.castlingRights[color][wing]
  /\ g.halfMoveClock = 0
  /\ g.fullMoveNumber = n
  /\ g.currentTurn = "white"
  /\ g.winner = "none"
  /\ g.status = "waiting"
  /\ g.lastMove = NoMove

\* the session handleJoin has just created for its first player
JustCreated == outcome.kind = "Joined" /\ game.players = 1

\* C19: a newly created session has the standard starting arrangement with every piece
\* unmoved, all four castling rights, a half-move clock of 0, a full-move number of 1,
\* white to move, no winner and status waiting.
C19_NewSession ==
  /\ NewSession(createGame, 1)
  /\ game.players = 0 => game = createGame
  /\ JustCreated => game = [createGame EXCEPT !.players = 1]

\* C19 as stated: the same with both counters at 0
C19_NewSessionCountersZero ==
  /\ NewSession(createGame, 0)
  /\ game.players = 0 => game = createGame
  /\ JustCreated => game = [createGame EXCEPT !.players = 1]

C19_SessionCreated ==
  /\ JustCreated
  /\ NewSession(game, 1)

\* C20: with fewer than two players the status is waiting and no move has been applied,
\* and the status leaves waiting only in the join of the second player.
C20_WaitingUntilTwoPlayers ==
  [][/\ game'.players < 2 => game'.status = "waiting" /\ game'.lastMove = NoMove
     /\ (game.status = "waiting" /\ game'.status # "waiting")
          => outcome'.kind = "Joined" /\ game'.players = 2]_vars

\* C21: once the status is checkmate, stalemate or draw, no operation changes the
\* board, the status or the winner.
C21_TerminalIsAbsorbing ==
  [][game.status \in Terminal
       => /\ game'.board = game.board
          /\ game'.status = game.status
          /\ game'.winner = game.winner]_vars

\* C22: the board always holds exactly one king of each side.
C22_OneKingPerSide ==
  \A color \in Colors : Cardinality(KingSquares(game.board, color)) = 1

\* C23: a step that applies a move of a piece other than a pawn onto a square that was
\* empty leaves the half-move clock one higher than it was; a step that applies a pawn
\* move or a capture leaves it at 0.
C23_ClockStep ==
  [][outcome'.kind = "Applied"
       => LET lm == game'.lastMove
              moved == game.board[lm.from[1]][lm.from[2]]
              target == game.board[lm.to[1]][lm.to[2]]
          IN game'.halfMoveClock =
               (IF moved.type # "pawn" /\ target = NoPiece THEN game.halfMoveClock + 1 ELSE 0)]_vars

\* the half-move clock at which updateGameStatus declares a draw
DrawClock == 100

\* the status of g by the order checkmate, stalemate, draw by the clock, check, playing,
\* each for the side to move
StatusByPriority(g) ==
  LET inCheck == KingExposed(g.board, g.currentTurn)
      frozen == ~HasLegalMove(g.board, g.currentTurn)
  IN IF inCheck /\ frozen THEN "checkmate"
     ELSE IF frozen THEN "stalemate"
     ELSE IF g.halfMoveClock >= DrawClock THEN "draw"
     ELSE IF inCheck THEN "check"
     ELSE "playing"

C25_FullMoveNumberStep ==
  [][game'.fullMoveNumber =
       (IF outcome'.kind = "Applied" /\ game.currentTurn = "black"
          THEN game.fullMoveNumber + 1
          ELSE game.fullMoveNumber)]_vars

C25_SecondRound ==
  /\ outcome.kind = "Applied"
  /\ game.lastMove.piece.color = "white"
  /\ game.fullMoveNumber = 2

\* C26: white is the first to move; a step that applies a move applies a move of the
\* side to move and gives the turn to the other side; no other step changes the turn.
C26_StrictAlternation ==
  /\ game.currentTurn = "white"
  /\ [][IF outcome'.kind = "Applied"
          THEN /\ game'.lastMove.piece.color = game.currentTurn
               /\ game'.currentTurn = Opponent(game.currentTurn)
          ELSE game'.currentTurn = game.currentTurn]_vars

C26_TwoRoundsPlayed ==
  /\ outcome.kind = "Applied"
  /\ game.lastMove.piece.color = "black"
  /\ game.currentTurn = "white"
  /\ game.fullMoveNumber = 3

\* the last applied move moved a king two columns along its row
CastlingApplied ==
  /\ outcome.kind = "Applied"
  /\ game.lastMove.piece.type = "king"
  /\ Abs(game.lastMove.to[2] - game.lastMove.from[2]) = 2

\* C27: after an applied castling move the king stands on its destination, the rook of
\* the wing on the square the king passed over, the king's square of origin and the
\* rook's corner are empty, and king and rook are marked as moved.
C27_CastlingPlacesKingAndRook ==
  CastlingApplied
    => LET lm == game.lastMove
           row == lm.from[1]
           passed == (lm.from[2] + lm.to[2]) \div 2
           corner == IF lm.to[2] > lm.from[2] THEN 7 ELSE 0
           king == game.board[row][lm.to[2]]
           rook == game.board[row][passed]
       IN /\ king.type = "king" /\ king.color = lm.piece.color /\ king.hasMoved
          /\ rook.type = "rook" /\ rook.color = lm.piece.color /\ rook.hasMoved
          /\ game.board[row][corner] = NoPiece
          /\ game.board[row][lm.from[2]] = NoPiece

C27_Castled ==
  /\ CastlingApplied
  /\ game.lastMove.from = <<7, 4>>
  /\ game.lastMove.to = <<7, 6>>
  /\ game.board[7][5].type = "rook"

\* the row on which a pawn of `color` is promoted
LastRow(color) == IF color = "white" THEN 0 ELSE 7

\* C28: a move of a pawn onto its last row, straight or capturing, is applied and
\* leaves on the destination a piece of the mover's side, of the kind asked for or a
\* queen when none was asked for, not a pawn, under a new id.
C28_PromotionOnArrival ==
  \A req \in UiRequestsOf(game), promotion \in UiPromotions \cup {"none"} :
    (req.piece.type = "pawn" /\ req.to[1] = LastRow(req.piece.color))
      => LET r == handleMove(game, [req EXCEPT !.promotion = promotion])
             arrived == r.game.board[req.to[1]][req.to[2]]
         IN /\ r.outcome = "Applied"
            /\ arrived.color = req.piece.color
            /\ arrived.type = (IF promotion = "none" THEN "queen" ELSE promotion)
            /\ arrived.type # "pawn"
            /\ arrived.id # req.piece.id

C28_Promoted ==
  /\ outcome.kind = "Applied"
  /\ game.lastMove.from = <<1, 1>>
  /\ game.lastMove.to[1] = 0
  /\ game.lastMove.promotion = "knight"
  /\ game.board[0][game.lastMove.to[2]].type = "knight"
  /\ game.board[0][game.lastMove.to[2]].color = "white"

\* the row on which the king and the rooks of `color` start
HomeRow(color) == IF color = "white" THEN 7 ELSE 0

\* C29: a step that applies a move of a king leaves both castling rights of its side
\* false; a step that applies a move of a rook from a corner of its home row leaves the
\* right of that wing false.
C29_RightsClearedByKingAndRook ==
  [][outcome'.kind = "Applied"
       => LET lm == game'.lastMove
              moved == game.board[lm.from[1]][lm.from[2]]
              rights == game'.castlingRights[moved.color]
          IN /\ moved.type = "king" => ~rights.kingside /\ ~rights.queenside
             /\ (moved.type = "rook" /\ lm.from = <<HomeRow(moved.color), 7>>)
                  => ~rights.kingside
             /\ (moved.type = "rook" /\ lm.from = <<HomeRow(moved.color), 0>>)
                  => ~rights.queenside]_vars

C29_RookLeftCorner ==
  /\ outcome.kind = "Applied"
  /\ game.lastMove.piece.type = "rook"
  /\ game.lastMove.from = <<7, 7>>
  /\ ~game.castlingRights["white"]["kingside"]
  /\ game.castlingRights["white"]["queenside"]

\* C30: after a step that applies a move, lastMove holds the origin, the destination
\* and the piece as it stands on the destination; its isCastle flag is set exactly for
\* a castling move, its isEnPassant flag exactly for a pawn's diagonal move onto an
\* empty square, its promotion exactly for a pawn arriving on its last row.
C30_LastMoveDescribesTheMove ==
  [][outcome'.kind = "Applied"
       => LET lm == game'.lastMove
              moved == game.board[lm.from[1]][lm.from[2]]
              target == game.board[lm.to[1]][lm.to[2]]
          IN /\ moved # NoPiece
             /\ game'.board[lm.from[1]][lm.from[2]] = NoPiece
             /\ game'.board[lm.to[1]][lm.to[2]] = lm.piece
             /\ lm.isCastle <=> (moved.type = "king" /\ Abs(lm.to[2] - lm.from[2]) = 2)
             /\ lm.isEnPassant
                  <=> (moved.type = "pawn" /\ lm.to[2] # lm.from[2] /\ target = NoPiece)
             /\ lm.promotion # "none"
                  <=> (moved.type = "pawn" /\ lm.to[1] = LastRow(moved.color))]_vars

\* some piece of the opponent of `color` satisfies canPieceAttackSquare for t
CanBeAttacked(b, color, t) ==
  \E s \in Squares :
    /\ b[s[1]][s[2]].color = Opponent(color)
    /\ canPieceAttackSquare(b, b[s[1]][s[2]], s[1], s[2], t[1], t[2])

\* C31: on every board and for each side, a square is marked by getAttackedSquares
\* exactly when a piece of the other side satisfies canPieceAttackSquare for it, and
\* isKingInCheck is true exactly when the square of the side's king is marked.
C31_AttackComputationsAgree ==
  \A color \in Colors :
    /\ \A t \in Squares :
         t \in getAttackedSquares(game.board, color) <=> CanBeAttacked(game.board, color, t)
    /\ KingSquares(game.board, color) # {}
         => (isKingInCheck(game.board, color)
               <=> FirstKing(game.board, color) \in getAttackedSquares(game.board, color))

C31_KingMarked ==
  /\ game.status = "check"
  /\ isKingInCheck(game.board, game.currentTurn)
  /\ FirstKing(game.board, game.currentTurn) \in getAttackedSquares(game.board, game.currentTurn)

\* the move requests a client of the side to move can compose against session g
ComposedAgainst(g) ==
  {req \in Tries \cup UiRequestsOf(g) : req.piece.color = g.currentTurn}

\* as the claim words it: the later of two requests for one ply gets the answer
\* "wrong turn" or "stale piece reference"
C32_LaterIsRejectedWithAnError ==
  [][outcome'.kind = "Applied"
       => \A later \in ComposedAgainst(game) :
            handleMove(game', later).outcome \in {"WrongTurn", "PieceMismatch"}]_vars

\* C32: of two requests composed against one session state for the same ply, the later
\* is validated against the state the earlier left and is never applied: it leaves the
\* session as it was and is rejected as wrong turn or, when the earlier move left a
\* status other than playing, dropped by the status test.
C32_OnePlyIsAppliedOnce ==
  [][outcome'.kind = "Applied"
       => \A later \in ComposedAgainst(game) :
            LET r == handleMove(game', later)
            IN /\ r.game = game'
               /\ r.outcome \in {"WrongTurn", "NotPlaying"}
               /\ r.outcome = "NotPlaying" <=> game'.status # "playing"]_vars

C32_LaterRequestRejected ==
  /\ outcome.kind = "WrongTurn"
  /\ game.lastMove # NoMove
  /\ game.lastMove.piece.color # game.currentTurn

\* square <<row, col>> of board b holds a pawn standing on its farthest rank
PromotablePawnOn(b, row, col) ==
  /\ OnBoard(row, col)
  /\ b[row][col] # NoPiece
  /\ b[row][col].type = "pawn"
  /\ row = LastRow(b[row][col].color)

\* C33: handlePromotion changes a piece only when the addressed square holds a pawn
\* standing on its farthest rank (row 0 for white, row 7 for black); for an empty
\* square, a non-pawn or a pawn on another rank board and status stay as they were.
C33_PromotionNeedsPawnOnLastRank ==
  [][\A p \in PromotionTries, stamp \in Stamps :
       LET r == handlePromotion(game, p[1], p[2], p[3], stamp)
       IN outcome'.kind = "Promoted" /\ game' = r.game /\ ~PromotablePawnOn(game.board, p[1], p[2])
            => game'.board = game.board /\ game'.status = game.status]_vars

\* C34: after an applied move that is not a promotion the destination holds a piece of
\* the side, kind and identity the board held on the origin, and the move is legal for
\* that occupant: what the request claims about the piece changes neither.
C34_PayloadCannotChangeThePiece ==
  [][outcome'.kind = "Applied"
       => LET from == game'.lastMove.from
              to == game'.lastMove.to
              was == game.board[from[1]][from[2]]
              now == game'.board[to[1]][to[2]]
          IN PromotablePawnOn(game'.board, to[1], to[2]) \/ PromotablePawnOn([game.board EXCEPT ![to[1]][to[2]] = was], to[1], to[2])
             \/ /\ now.color = was.color
                /\ now.type = was.type
                /\ now.id = was.id
                /\ isValidMove(game.board, was, from[1], from[2], to[1], to[2])]_vars

\* the pieces a promotion has made
PromotedPieces(b) ==
  {b[s[1]][s[2]] : s \in {t \in Squares : b[t[1]][t[2]] # NoPiece /\ b[t[1]][t[2]].id[3] >= PromotedBase}}

\* C35: every promotion, in handleMove or in handlePromotion, yields a queen, rook,
\* bishop or knight, never a king or a pawn, and no pawn stands on row 0 or row 7.
C35_PromotionKinds ==
  /\ \A piece \in PromotedPieces(game.board) : piece.type \in UiPromotions
  /\ \A s \in Squares : s[1] \in {0, 7} => game.board[s[1]][s[2]].type # "pawn"

\* the column of the corner the rook of a wing starts on
CornerCol(wing) == IF wing = "kingside" THEN 7 ELSE 0

\* C36: a castling right is cleared only by the moves that forfeit it: an applied move
\* that is neither a move of that side's king nor a move of that side's rook from the
\* corner of that wing leaves the right as it was.
C36_RightsChangeOnlyByForfeit ==
  [][outcome'.kind = "Applied"
       => LET from == game'.lastMove.from
              moved == game.board[from[1]][from[2]]
          IN \A color \in Colors, wing \in Wings :
               \/ moved.color = color /\ moved.type = "king"
               \/ moved.color = color /\ moved.type = "rook"
                    /\ from = <<HomeRow(color), CornerCol(wing)>>
               \/ game'.castlingRights[color][wing] = game.castlingRights[color][wing]]_vars

\* C37: the valid moves the GameService holds are none, or those the server computed
\* for the piece that is selected now: the answer to the request made for an earlier
\* selection never becomes the list of a later one, so movePiece never sends a
\* destination computed for another piece.
C37_ValidMovesAreOfTheSelection ==
  client.validMoves # {}
    => client.selectedPiece # NoSelection /\ client.movesOf = client.selectedPiece.piece

\* C38: once disconnect() has been called, and until connect() or send() is invoked
\* again, the service creates no socket: the reconnect timer does not fire for a
\* connection that was closed by disconnect().
C38_StaysDisconnected ==
  [][/\ socket.quiet /\ socket'.quiet => Len(socket'.sockets) = Len(socket.sockets)
     /\ socket'.timers.disconnected = 0]_vars

====
